---- MODULE Spec2Model ----
(***************************************************************************)
(* Model of the native callback bridge of steamworks-sys                   *)
(* (steamworks-sys/src/lib.cpp, steamworks-sys/wrapper.hpp).               *)
(*                                                                         *)
(* A CallbackManager owns a by-value copy of a SteamRustCallbacks table    *)
(* and two manual registrations with the SDK's callback dispatch.  The     *)
(* host thread constructs managers, destroys them and pumps the dispatch;  *)
(* the dispatch calls the registered member functions, which call through  *)
(* the function pointers of the stored table.                              *)
(***************************************************************************)
EXTENDS Integers, Sequences, FiniteSets, TLC

\* ---------------------------------------------------------------- bounds
MaxBridges == 2
MaxEvents  == 2
MaxPayload == 1
MaxVerLen == 5

\* ------------------------------------------------------- program constants
\* number of registrations a CallbackManager owns
N == 2

Bridges == 1..MaxBridges

\* the function pointers a caller can put in a table (recording stubs)
Stubs == {"A", "B"}

\* SteamRustCallbacks: one function pointer per supported event kind
Tables == [onPersonaStateChanged : Stubs, onSteamShutdown : Stubs]

NoTable == [onPersonaStateChanged |-> "freed", onSteamShutdown |-> "freed"]

\* the two registration members declared by STEAM_CALLBACK_MANUAL
Registrations == {"persona_state_change_registration", "steam_shutdown_registration"}

\* the event kinds (callback struct types) of the SDK the bridge services
Kinds == {"PersonaStateChange_t", "SteamShutdown_t"}

\* the callback struct a registration member is declared for
CallbackType(reg) ==
    IF reg = "persona_state_change_registration"
    THEN "PersonaStateChange_t"
    ELSE "SteamShutdown_t"

\* payloads: a PersonaStateChange_t is <<m_ulSteamID, m_nChangeFlags>>, here
\* one of MaxPayload distinct records; a SteamShutdown_t has no fields
Payloads(k) ==
    IF k = "PersonaStateChange_t"
    THEN { <<12344 + i, i>> : i \in 1..MaxPayload }
    ELSE { <<>> }

\* a null function pointer in a table slot
NullFn == "null"

\* tables a caller can build when it does not keep the slots non-null
NullableTables ==
    [onPersonaStateChanged : {"A", NullFn}, onSteamShutdown : {"B", NullFn}]

\* the table the caller's variable holds at first
FirstTable == [onPersonaStateChanged |-> "A", onSteamShutdown |-> "B"]

\* the "version" environment variable is not set
NoVersion == << "unset" >>

\* no accessor has been called yet
NoIface == [fn |-> "none", ptr |-> "none"]

NoEvent == [kind |-> "none", arg |-> <<>>]
NoFrame == [obj |-> 0, func |-> "none", arg |-> <<>>, pc |-> "none"]

VARIABLES
    pc,         \* per manager: position in its life cycle
    alloc,      \* managers whose memory is allocated (new .. delete)
    callbacks,  \* per manager: the stored SteamRustCallbacks member
    registry,   \* the dispatch mechanism's active registrations
    taken,      \* number of native events the dispatch has taken up
    cur,        \* the event being dispatched, or NoEvent
    todo,       \* registrations the current event is still to be delivered to
    frame,      \* the handler call in progress, or NoFrame
    delivered,  \* every handler call the dispatch made, in order
    calls,      \* every call through a table slot (what the stubs record)
    err,        \* "none", or the fatal / undefined condition the process hit
    callerTable,\* the caller's own SteamRustCallbacks variable
    iface,      \* the interface pointer the last accessor call returned
    version,    \* release task: the "version" environment variable
    rpc,        \* release task: position in the task
    ran         \* release task: the shell commands run so far, in order

\* the variables outside the callback bridge's own state
aux == <<err, callerTable, iface, version, rpc, ran>>

vars == <<pc, alloc, callbacks, registry, taken, cur, todo, frame, delivered, calls,
          err, callerTable, iface, version, rpc, ran>>

\* ------------------------------------------------- the SDK's registration
\* CCallbackManual::Register(pObj, func) on member reg of object this; a
\* member that is registered already is unregistered first
Register(R, this, reg, func) ==
    { e \in R : ~(e.obj = this /\ e.reg = reg) } \cup { [obj |-> this, reg |-> reg, iCallback |-> CallbackType(reg), func |-> func] }

\* CCallbackManual::Unregister() on member reg of object this
Unregister(R, this, reg) ==
    { e \in R : ~(e.obj = this /\ e.reg = reg) }

EntriesOf(R, b) == { e \in R : e.obj = b }

\* ------------------------------------------------------ accessor functions
\* lib.cpp:3-8
Accessors ==
    {"steam_rust_get_friends", "steam_rust_get_remote_storage", "steam_rust_get_ugc",
     "steam_rust_get_user", "steam_rust_get_user_stats", "steam_rust_get_utils"}

\* variant: every accessor returns the friends interface
AccessorResult_copyPaste(f) == "SteamFriends()"

\* lib.cpp:3-8: the SDK accessor each function returns the result of
AccessorResult(f) ==
    CASE f = "steam_rust_get_friends"        -> "SteamFriends()"
      [] f = "steam_rust_get_remote_storage" -> "SteamRemoteStorage()"
      [] f = "steam_rust_get_ugc"            -> "SteamUGC()"
      [] f = "steam_rust_get_user"           -> "SteamUser()"
      [] f = "steam_rust_get_user_stats"     -> "SteamUserStats()"
      [] f = "steam_rust_get_utils"          -> "SteamUtils()"

\* ---------------------------------------------------- CallbackManager code
\* lib.cpp:11
CtorRegisterPersona(R, this) ==
    Register(R, this, "persona_state_change_registration", "OnPersonaStateChange")

\* variant: the second registration is forgotten
CtorRegisterShutdown_missing(R, this) == R

\* variant: the second Register is made on the first member
CtorRegisterShutdown_wrongMember(R, this) ==
    Register(R, this, "persona_state_change_registration", "OnSteamShutdown")

\* lib.cpp:12
CtorRegisterShutdown(R, this) ==
    Register(R, this, "steam_shutdown_registration", "OnSteamShutdown")

\* variant: the destructor unregisters the first member of every manager
DtorUnregisterPersona_everyManager(R, this) ==
    { e \in R : e.reg # "persona_state_change_registration" }

\* variant: the destructor's first statement names the second member
DtorUnregisterPersona_otherMember(R, this) ==
    Unregister(R, this, "steam_shutdown_registration")

\* variant: the destructor does not unregister the first member
DtorUnregisterPersona_skip(R, this) == R

\* lib.cpp:16
DtorUnregisterPersona(R, this) ==
    Unregister(R, this, "persona_state_change_registration")

\* variant: the destructor does not unregister the second member
DtorUnregisterShutdown_skip(R, this) == R

\* variant: the destructor unregisters the first member twice
DtorUnregisterShutdown_samePersona(R, this) ==
    Unregister(R, this, "persona_state_change_registration")

\* lib.cpp:17
DtorUnregisterShutdown(R, this) ==
    Unregister(R, this, "steam_shutdown_registration")

\* variant: the handler forwards the event twice
OnPersonaStateChange_twice(cb, pCallback) ==
    << [slot |-> "onPersonaStateChanged", fn |-> cb.onPersonaStateChanged, arg |-> pCallback],
       [slot |-> "onPersonaStateChanged", fn |-> cb.onPersonaStateChanged, arg |-> pCallback] >>

\* variant: the handler forwards a null payload
OnPersonaStateChange_nullArg(cb, pCallback) ==
    << [slot |-> "onPersonaStateChanged", fn |-> cb.onPersonaStateChanged, arg |-> <<>>] >>

\* lib.cpp:20-23: the calls the handler makes, in order
OnPersonaStateChange(cb, pCallback) ==
    << [slot |-> "onPersonaStateChanged", fn |-> cb.onPersonaStateChanged, arg |-> pCallback] >>

\* variant: the handler calls through the other slot
OnSteamShutdown_wrongSlot(cb, pCallback) ==
    << [slot |-> "onPersonaStateChanged", fn |-> cb.onPersonaStateChanged, arg |-> pCallback] >>

\* variant: the handler returns without forwarding
OnSteamShutdown_noCall(cb, pCallback) == << >>

\* variant: the handler checks the slot and skips a null pointer
OnSteamShutdown_guarded(cb, pCallback) ==
    IF cb.onSteamShutdown = NullFn
    THEN << >>
    ELSE << [slot |-> "onSteamShutdown", fn |-> cb.onSteamShutdown, arg |-> pCallback] >>

\* lib.cpp:25-28
OnSteamShutdown(cb, pCallback) ==
    << [slot |-> "onSteamShutdown", fn |-> cb.onSteamShutdown, arg |-> pCallback] >>

\* the member function a registration was made with, applied
Invoke(func, cb, pCallback) ==
    IF func = "OnPersonaStateChange"
    THEN OnPersonaStateChange(cb, pCallback)
    ELSE OnSteamShutdown(cb, pCallback)

\* variant: the manager keeps a reference to the caller's table
TableRead_byReference(b) == {callerTable}

\* what a read of this->callbacks can yield: the stored table, or anything
\* once the manager's memory has been released
TableRead(b) == IF b \in alloc THEN {callbacks[b]} ELSE Tables

\* the host thread is in none of the bridge's or the dispatch's calls
Idle ==
    /\ \A b \in Bridges : pc[b] \in {"free", "live", "released"}
    /\ cur = NoEvent
    /\ frame = NoFrame

Init ==
    /\ pc = [b \in Bridges |-> "free"]
    /\ alloc = {}
    /\ callbacks = [b \in Bridges |-> NoTable]
    /\ registry = {}
    /\ taken = 0
    /\ cur = NoEvent
    /\ todo = {}
    /\ frame = NoFrame
    /\ delivered = <<>>
    /\ calls = <<>>
    /\ err = "none"
    /\ callerTable = FirstTable
    /\ iface = NoIface
    /\ version = NoVersion
    /\ rpc = "idle"
    /\ ran = <<>>

\* ------------------------------------------------------------- Construct
\* lib.cpp:34-35 and the member initialiser of lib.cpp:10
RegisterCallbacksNew(b, t) ==
    /\ Idle
    /\ pc[b] = "free"
    /\ \A c \in Bridges : c < b => pc[c] # "free"
    /\ alloc' = alloc \cup {b}
    /\ callbacks' = [callbacks EXCEPT ![b] = t]
    /\ pc' = [pc EXCEPT ![b] = "ctor_persona"]
    /\ UNCHANGED <<registry, taken, cur, todo, frame, delivered, calls>>
    /\ UNCHANGED aux

CtorPersona(b) ==
    /\ pc[b] = "ctor_persona"
    /\ registry' = CtorRegisterPersona(registry, b)
    /\ pc' = [pc EXCEPT ![b] = "ctor_shutdown"]
    /\ UNCHANGED <<alloc, callbacks, taken, cur, todo, frame, delivered, calls>>
    /\ UNCHANGED aux

\* lib.cpp:12-13 and the return of lib.cpp:36
CtorShutdown(b) ==
    /\ pc[b] = "ctor_shutdown"
    /\ registry' = CtorRegisterShutdown(registry, b)
    /\ pc' = [pc EXCEPT ![b] = "live"]
    /\ UNCHANGED <<alloc, callbacks, taken, cur, todo, frame, delivered, calls>>
    /\ UNCHANGED aux

\* --------------------------------------------------------------- Destroy
\* variant: the memory is released without running the destructor
UnregisterCallbacksDelete_free(b) ==
    /\ Idle
    /\ pc[b] = "live"
    /\ alloc' = alloc \ {b}
    /\ callbacks' = [callbacks EXCEPT ![b] = NoTable]
    /\ pc' = [pc EXCEPT ![b] = "released"]
    /\ UNCHANGED <<registry, taken, cur, todo, frame, delivered, calls>>
    /\ UNCHANGED aux

\* lib.cpp:30-31: delete enters the destructor
UnregisterCallbacksDelete(b) ==
    /\ Idle
    /\ pc[b] = "live"
    /\ pc' = [pc EXCEPT ![b] = "dtor_persona"]
    /\ UNCHANGED <<alloc, callbacks, registry, taken, cur, todo, frame, delivered, calls>>
    /\ UNCHANGED aux

DtorPersona(b) ==
    /\ pc[b] = "dtor_persona"
    /\ registry' = DtorUnregisterPersona(registry, b)
    /\ pc' = [pc EXCEPT ![b] = "dtor_shutdown"]
    /\ UNCHANGED <<alloc, callbacks, taken, cur, todo, frame, delivered, calls>>
    /\ UNCHANGED aux

DtorShutdown(b) ==
    /\ pc[b] = "dtor_shutdown"
    /\ registry' = DtorUnregisterShutdown(registry, b)
    /\ pc' = [pc EXCEPT ![b] = "dtor_free"]
    /\ UNCHANGED <<alloc, callbacks, taken, cur, todo, frame, delivered, calls>>
    /\ UNCHANGED aux

\* variant: the memory is released a second time
Release_twice(b) ==
    /\ pc[b] = "dtor_free"
    /\ alloc' = alloc \ {b}
    /\ callbacks' = [callbacks EXCEPT ![b] = NoTable]
    /\ pc' = [pc EXCEPT ![b] = "released"]
    /\ err' = "double_free"
    /\ UNCHANGED <<registry, taken, cur, todo, frame, delivered, calls>>
    /\ UNCHANGED <<callerTable, iface, version, rpc, ran>>

\* lib.cpp:31-32: the destructor has returned, delete releases the memory
Release(b) ==
    /\ pc[b] = "dtor_free"
    /\ alloc' = alloc \ {b}
    /\ callbacks' = [callbacks EXCEPT ![b] = NoTable]
    /\ pc' = [pc EXCEPT ![b] = "released"]
    /\ UNCHANGED <<registry, taken, cur, todo, frame, delivered, calls>>
    /\ UNCHANGED aux

\* -------------------------------------------------------- native dispatch
\* the host pumps the dispatch, which takes up one native event
RunCallbacks(k, p) ==
    /\ Idle
    /\ taken < MaxEvents
    /\ taken' = taken + 1
    /\ cur' = [kind |-> k, arg |-> p]
    /\ todo' = { e \in registry : e.iCallback = k }
    /\ UNCHANGED <<pc, alloc, callbacks, registry, frame, delivered, calls>>
    /\ UNCHANGED aux

\* the dispatch calls one registered member function with the payload; the
\* handlers of a kind are called in the order of their registration, which
\* is the order of the managers' construction
Deliver(e) ==
    /\ cur # NoEvent
    /\ frame = NoFrame
    /\ e \in todo
    /\ \A f \in todo : e.obj <= f.obj
    /\ todo' = todo \ {e}
    /\ frame' = [obj |-> e.obj, func |-> e.func, arg |-> cur.arg, pc |-> "call"]
    /\ delivered' = Append(delivered, [obj |-> e.obj, kind |-> cur.kind, arg |-> cur.arg])
    /\ UNCHANGED <<pc, alloc, callbacks, registry, taken, cur, calls>>
    /\ UNCHANGED aux

\* lib.cpp:22 / lib.cpp:27: the handler body, the stub records its call
\* a call through a null slot is undefined: the process is lost there
HandlerCall ==
    /\ frame.pc = "call"
    /\ \E cb \in TableRead(frame.obj) :
          LET cs == Invoke(frame.func, cb, frame.arg)
          IN  IF \E i \in 1..Len(cs) : cs[i].fn = NullFn
              THEN /\ err' = "null_call"
                   /\ UNCHANGED <<calls, frame>>
              ELSE /\ calls' = calls \o [i \in 1..Len(cs) |->
                                  [via  |-> frame.obj,
                                   slot |-> cs[i].slot,
                                   fn   |-> cs[i].fn,
                                   arg  |-> cs[i].arg]]
                   /\ frame' = [frame EXCEPT !.pc = "ret"]
                   /\ err' = err
    /\ UNCHANGED <<pc, alloc, callbacks, registry, taken, cur, todo, delivered>>
    /\ UNCHANGED <<callerTable, iface, version, rpc, ran>>

\* lib.cpp:23 / lib.cpp:28: the handler returns to the dispatch
HandlerReturn ==
    /\ frame.pc = "ret"
    /\ frame' = NoFrame
    /\ UNCHANGED <<pc, alloc, callbacks, registry, taken, cur, todo, delivered, calls>>
    /\ UNCHANGED aux

\* the dispatch has called every handler of the event
RunCallbacksReturn ==
    /\ cur # NoEvent
    /\ frame = NoFrame
    /\ todo = {}
    /\ cur' = NoEvent
    /\ UNCHANGED <<pc, alloc, callbacks, registry, taken, todo, frame, delivered, calls>>
    /\ UNCHANGED aux

Next ==
    \/ \E b \in Bridges, t \in Tables : RegisterCallbacksNew(b, t)
    \/ \E b \in Bridges : CtorPersona(b)
    \/ \E b \in Bridges : CtorShutdown(b)
    \/ \E b \in Bridges : UnregisterCallbacksDelete(b)
    \/ \E b \in Bridges : DtorPersona(b)
    \/ \E b \in Bridges : DtorShutdown(b)
    \/ \E b \in Bridges : Release(b)
    \/ \E k \in Kinds : \E p \in Payloads(k) : RunCallbacks(k, p)
    \/ \E e \in todo : Deliver(e)
    \/ HandlerCall
    \/ HandlerReturn
    \/ RunCallbacksReturn

Spec == Init /\ [][Next]_vars

\* ------------------------------------------- the caller's own table variable
\* the caller assigns to the table variable it passes to Construct
SetCallerTable(t) ==
    /\ Idle
    /\ t # callerTable
    /\ callerTable' = t
    /\ UNCHANGED <<pc, alloc, callbacks, registry, taken, cur, todo, frame, delivered, calls>>
    /\ UNCHANGED <<err, iface, version, rpc, ran>>

\* lib.cpp:34: the table is passed by value from the caller's variable
RegisterCallbacksByValue(b) == RegisterCallbacksNew(b, callerTable)

\* the steps of the bridge and of the dispatch after Construct has been called
BridgeSteps ==
    \/ \E b \in Bridges : CtorPersona(b)
    \/ \E b \in Bridges : CtorShutdown(b)
    \/ \E b \in Bridges : UnregisterCallbacksDelete(b)
    \/ \E b \in Bridges : DtorPersona(b)
    \/ \E b \in Bridges : DtorShutdown(b)
    \/ \E b \in Bridges : Release(b)
    \/ \E k \in Kinds : \E p \in Payloads(k) : RunCallbacks(k, p)
    \/ \E e \in todo : Deliver(e)
    \/ HandlerCall
    \/ HandlerReturn
    \/ RunCallbacksReturn

NextTable ==
    \/ \E t \in Tables : SetCallerTable(t)
    \/ \E b \in Bridges : RegisterCallbacksByValue(b)
    \/ BridgeSteps

SpecTable == Init /\ [][NextTable]_vars

\* ==================================================================
\* The release task (Drakefile.ts)
\* ==================================================================
SHOULD_CARGO_PUBLISH == FALSE
SHOULD_PUSH_DOCS_TO_GITHUB_PAGES == TRUE

\* characters a version string is made of here
Digit == {"0", "1"}
NonZeroDigit == {"1"}
LetterOrHyphen == {"a", "-"}
AlnumOrHyphen == Digit \cup LetterOrHyphen
VerAlphabet == AlnumOrHyphen \cup {".", "+", "_"}

StrOf(n) == [1..n -> VerAlphabet]

\* a few longer strings with pre-release and build parts
LongVersions ==
    { <<"0","1",".","0",".","0">>,
      <<"1",".","0",".","0","-","a">>,
      <<"1",".","0",".","0","-","0","1">>,
      <<"1",".","0",".","0","-","0","a">>,
      <<"1",".","0",".","0","-","a",".","1">>,
      <<"1",".","0",".","0","-","a",".",".","1">>,
      <<"1",".","0",".","0","+","0","1">>,
      <<"1",".","0",".","0","-","a","+","a",".","0">>,
      <<"1",".","0",".","0","+","a","+","a">>,
      <<"1",".","0",".","0","+","a","-","a">>,
      <<"1",".","0",".","0","-","a","_">>,
      <<"1",".","0",".","1","0",".","0">> }

\* what the "version" environment variable can hold
VersionInputs == {NoVersion} \cup LongVersions \cup UNION { StrOf(n) : n \in 0..MaxVerLen }

AllIn(s, C) == \A i \in 1..Len(s) : s[i] \in C

\* variant: (\d+), leading zeros pass
ReNumeric_anyDigits(s) == Len(s) >= 1 /\ AllIn(s, Digit)

\* (0|[1-9]\d*)
ReNumeric(s) ==
    \/ s = <<"0">>
    \/ Len(s) >= 1 /\ s[1] \in NonZeroDigit /\ AllIn(s, Digit)

\* \d*[a-zA-Z-][0-9a-zA-Z-]*
ReAlphanumeric(s) ==
    \E i \in 1..Len(s) :
        /\ AllIn(SubSeq(s, 1, i - 1), Digit)
        /\ s[i] \in LetterOrHyphen
        /\ AllIn(SubSeq(s, i + 1, Len(s)), AlnumOrHyphen)

\* (?:0|[1-9]\d*|\d*[a-zA-Z-][0-9a-zA-Z-]*)
RePreId(s) == ReNumeric(s) \/ ReAlphanumeric(s)

\* id(?:\.id)*  for the pre-release identifiers
RECURSIVE RePreList(_)
RePreList(s) ==
    \E i \in 1..Len(s) :
        /\ RePreId(SubSeq(s, 1, i))
        /\ \/ i = Len(s)
           \/ /\ i + 1 < Len(s)
              /\ s[i + 1] = "."
              /\ RePreList(SubSeq(s, i + 2, Len(s)))

\* [0-9a-zA-Z-]+(?:\.[0-9a-zA-Z-]+)*
RECURSIVE ReBuildList(_)
ReBuildList(s) ==
    \E i \in 1..Len(s) :
        /\ AllIn(SubSeq(s, 1, i), AlnumOrHyphen)
        /\ \/ i = Len(s)
           \/ /\ i + 1 < Len(s)
              /\ s[i + 1] = "."
              /\ ReBuildList(SubSeq(s, i + 2, Len(s)))

\* (?:\+(build))?$
ReBuildTail(q) ==
    \/ q = << >>
    \/ Len(q) >= 2 /\ q[1] = "+" /\ ReBuildList(SubSeq(q, 2, Len(q)))

\* (?:-(pre))?(?:\+(build))?$
ReTail(r) ==
    \/ ReBuildTail(r)
    \/ /\ Len(r) >= 2
       /\ r[1] = "-"
       /\ \E m \in 2..Len(r) :
             /\ RePreList(SubSeq(r, 2, m))
             /\ ReBuildTail(SubSeq(r, m + 1, Len(r)))

\* Drakefile.ts:75-79
isValidSemVer(s) ==
    \E d1, d2, e \in 1..Len(s) :
        /\ d1 < d2 /\ d2 < e
        /\ s[d1] = "." /\ s[d2] = "."
        /\ ReNumeric(SubSeq(s, 1, d1 - 1))
        /\ ReNumeric(SubSeq(s, d1 + 1, d2 - 1))
        /\ ReNumeric(SubSeq(s, d2 + 1, e))
        /\ ReTail(SubSeq(s, e + 1, Len(s)))

\* the commands of the sh([...]) calls, by the stage that runs them
Batch(stage) ==
    CASE stage = "checks" -> {"cargo test --all-features", "cargo fmt -- --check",
                              "git diff HEAD --exit-code --name-only"}
      [] stage = "tag"    -> {"git tag", "git push origin master", "git push origin tag"}
      [] stage = "docs"   -> {"git init", "git add .", "git commit", "git push -f gh-pages"}
      [] OTHER            -> {}

\* the stage that follows a stage that succeeded
NextStage(stage) ==
    CASE stage = "checks"  -> "dryrun"
      [] stage = "dryrun"  -> "tag"
      [] stage = "tag"     -> "publish"
      [] stage = "publish" -> "upload"
      [] stage = "upload"  -> "docs"
      [] stage = "docs"    -> "done"

Ran(c) == \E i \in 1..Len(ran) : ran[i].cmd = c
Failed == \E i \in 1..Len(ran) : ~ran[i].ok

\* Drakefile.ts:16-22: abort() throws, nothing of the task runs after it
ReleaseStart ==
    /\ rpc = "idle"
    /\ rpc' = IF version = NoVersion \/ ~isValidSemVer(version) THEN "aborted" ELSE "checks"
    /\ UNCHANGED <<pc, alloc, callbacks, registry, taken, cur, todo, frame, delivered, calls>>
    /\ UNCHANGED <<err, callerTable, iface, version, ran>>

\* Drakefile.ts:24-28, 34-38, 65-70: sh() with a list runs its commands, in
\* no order the task can rely on; each exits with success or failure
ShCommand(c, ok) ==
    /\ c \in Batch(rpc)
    /\ ~Ran(c)
    /\ ran' = Append(ran, [cmd |-> c, ok |-> ok])
    /\ UNCHANGED <<pc, alloc, callbacks, registry, taken, cur, todo, frame, delivered, calls>>
    /\ UNCHANGED <<err, callerTable, iface, version, rpc>>

\* sh() returns when its commands have run, or throws when one has failed
ShReturn ==
    /\ Batch(rpc) # {}
    /\ Failed \/ \A c \in Batch(rpc) : Ran(c)
    /\ rpc' = IF Failed THEN "aborted" ELSE NextStage(rpc)
    /\ UNCHANGED <<pc, alloc, callbacks, registry, taken, cur, todo, frame, delivered, calls>>
    /\ UNCHANGED <<err, callerTable, iface, version, ran>>

\* Drakefile.ts:30-32 and 40-42: cargo publish, only if SHOULD_CARGO_PUBLISH
CargoPublish(ok) ==
    /\ rpc \in {"dryrun", "publish"}
    /\ IF SHOULD_CARGO_PUBLISH
       THEN /\ ran' = Append(ran, [cmd |-> IF rpc = "dryrun" THEN "cargo publish --dry-run"
                                                              ELSE "cargo publish",
                                   ok |-> ok])
            /\ rpc' = IF ok THEN NextStage(rpc) ELSE "aborted"
       ELSE /\ ok
            /\ ran' = ran
            /\ rpc' = NextStage(rpc)
    /\ UNCHANGED <<pc, alloc, callbacks, registry, taken, cur, todo, frame, delivered, calls>>
    /\ UNCHANGED <<err, callerTable, iface, version>>

\* Drakefile.ts:44-46 and 50-63: upload-docs asks git for the origin url and
\* removes target/doc/.git; either can fail
UploadDocs(ok, removed) ==
    /\ rpc = "upload"
    /\ IF SHOULD_PUSH_DOCS_TO_GITHUB_PAGES
       THEN /\ ran' = Append(ran, [cmd |-> "git remote get-url origin", ok |-> ok])
            /\ rpc' = IF ok /\ removed THEN NextStage(rpc) ELSE "aborted"
       ELSE /\ ok /\ removed
            /\ ran' = ran
            /\ rpc' = "done"
    /\ UNCHANGED <<pc, alloc, callbacks, registry, taken, cur, todo, frame, delivered, calls>>
    /\ UNCHANGED <<err, callerTable, iface, version>>

InitRelease ==
    /\ pc = [b \in Bridges |-> "free"]
    /\ alloc = {}
    /\ callbacks = [b \in Bridges |-> NoTable]
    /\ registry = {}
    /\ taken = 0
    /\ cur = NoEvent
    /\ todo = {}
    /\ frame = NoFrame
    /\ delivered = <<>>
    /\ calls = <<>>
    /\ err = "none"
    /\ callerTable = FirstTable
    /\ iface = NoIface
    /\ version \in VersionInputs
    /\ rpc = "idle"
    /\ ran = <<>>

NextRelease ==
    \/ ReleaseStart
    \/ \E c \in Batch(rpc), ok \in BOOLEAN : ShCommand(c, ok)
    \/ ShReturn
    \/ \E ok \in BOOLEAN : CargoPublish(ok)
    \/ \E ok, removed \in BOOLEAN : UploadDocs(ok, removed)

SpecRelease == InitRelease /\ [][NextRelease]_vars

\* ==================================================================
\* Properties
\* ==================================================================

\* the table slot that services an event kind
SlotOf(k) ==
    IF k = "PersonaStateChange_t" THEN "onPersonaStateChanged" ELSE "onSteamShutdown"

CallsVia(b) == SelectSeq(calls, LAMBDA c : c.via = b)
DeliveredTo(b) == SelectSeq(delivered, LAMBDA d : d.obj = b)

\* a handler of manager b has been entered and has not yet made its call
Entering(b) == frame.obj = b /\ frame.pc = "call"

TypeOK ==
    /\ pc \in [Bridges -> {"free", "ctor_persona", "ctor_shutdown", "live",
                           "dtor_persona", "dtor_shutdown", "dtor_free", "released"}]
    /\ alloc \subseteq Bridges
    /\ \A b \in Bridges : callbacks[b] \in Tables \cup {NoTable}
    /\ \A e \in registry : e.obj \in Bridges /\ e.reg \in Registrations
    /\ taken \in 0..MaxEvents
    /\ \A e \in todo : e.obj \in Bridges /\ e.iCallback = cur.kind
    /\ frame.pc \in {"none", "call", "ret"}
    /\ rpc \in {"idle", "aborted", "checks", "dryrun", "tag", "publish", "upload", "docs", "done"}
    /\ version \in VersionInputs

\* C1: while a constructed manager has not been released, every event of
\* kind k with payload p that the dispatch delivered to it has caused exactly
\* one call of the function stored in the slot for k, with exactly p as the
\* argument (a delivery whose handler has not yet reached its call excepted).
C1_ExactlyOnceExactPayload ==
    \A b \in alloc : \A k \in Kinds : \A p \in Payloads(k) :
        LET nDelivered == Len(SelectSeq(DeliveredTo(b),
                               LAMBDA d : d.kind = k /\ d.arg = p))
            nCalled == Len(SelectSeq(CallsVia(b),
                               LAMBDA c : /\ c.slot = SlotOf(k)
                                          /\ c.fn = callbacks[b][SlotOf(k)]
                                          /\ c.arg = p))
            nOpen == IF Entering(b) /\ cur.kind = k /\ frame.arg = p THEN 1 ELSE 0
        IN  /\ nCalled = nDelivered - nOpen
            /\ Len(CallsVia(b)) = Len(DeliveredTo(b)) - (IF Entering(b) THEN 1 ELSE 0)

C1_Witness ==
    \E b \in Bridges :
        /\ pc[b] = "live"
        /\ frame = NoFrame
        /\ \E i, j \in 1..Len(CallsVia(b)) :
              /\ CallsVia(b)[i].slot = "onPersonaStateChanged"
              /\ CallsVia(b)[j].slot = "onSteamShutdown"

\* C2: once a manager has been released, the sequence of calls made through
\* it never grows again, whatever events are dispatched afterwards.
C2_NoCallAfterDestroy ==
    [][\A b \in Bridges : pc[b] = "released" => CallsVia(b)' = CallsVia(b)]_vars

C2_Witness ==
    \E b \in Bridges :
        /\ pc[b] = "released"
        /\ Len(CallsVia(b)) >= 1
        /\ cur # NoEvent
        /\ cur.kind = "PersonaStateChange_t"

\* C3: whenever the host is outside every call, the dispatch holds exactly N
\* registrations per live manager; so after any number of managers have been
\* constructed and destroyed the count is back at its starting value.
C3_NoLeakedRegistration ==
    Idle => Cardinality(registry) = N * Cardinality({ b \in Bridges : pc[b] = "live" })

C3_Witness ==
    /\ Idle
    /\ \A b \in Bridges : pc[b] = "released"
    /\ registry = {}

\* C4: a manager that Construct has returned holds exactly N registrations,
\* one per event kind: one tagged PersonaStateChange_t, one SteamShutdown_t.
C4_ExactlyNRegistered ==
    \A b \in Bridges :
        pc[b] = "live" =>
            /\ Cardinality(EntriesOf(registry, b)) = N
            /\ { e.iCallback : e \in EntriesOf(registry, b) } = Kinds
            /\ \A k \in Kinds :
                  Cardinality({ e \in EntriesOf(registry, b) : e.iCallback = k }) = 1

C4_Witness ==
    \E b \in Bridges : pc[b] = "live" /\ Idle /\ Cardinality(registry) = N

\* C5: every call a handler makes while an event of kind k is dispatched goes
\* through the slot for k, never through the other slot.
C5_OnlyOwnSlot ==
    [][\A i \in (Len(calls) + 1)..Len(calls') : calls'[i].slot = SlotOf(cur.kind)]_vars

C5_Witness ==
    /\ Len(calls) = 2
    /\ calls[1].slot = "onSteamShutdown"
    /\ calls[2].slot = "onPersonaStateChanged"
    /\ calls[1].via = calls[2].via
    /\ callbacks[calls[1].via] \in Tables
    /\ callbacks[calls[1].via].onSteamShutdown # callbacks[calls[1].via].onPersonaStateChanged

\* the state of a manager as the dispatch sees it
BridgeState(b) ==
    IF EntriesOf(registry, b) # {} THEN "Registered" ELSE "Unregistered"

Destroyed(b) == pc[b] \in {"dtor_free", "released"}

\* a step of the dispatch or of a handler (event delivery)
DeliveryStep ==
    \/ taken' # taken
    \/ cur' # cur
    \/ frame' # frame
    \/ delivered' # delivered
    \/ calls' # calls

\* C6: outside Construct and Destroy a manager has all N of its
\* registrations or none; a manager leaves Registered only inside Destroy,
\* a destroyed manager never becomes Registered again, and no step of event
\* delivery changes any manager's registrations.
C6_TwoStatesOneWay ==
    [][\A b \in Bridges :
          /\ Idle => Cardinality(EntriesOf(registry, b)) \in {0, N}
          /\ (BridgeState(b) = "Registered" /\ BridgeState(b)' = "Unregistered")
                => pc[b] = "dtor_shutdown"
          /\ (BridgeState(b) = "Unregistered" /\ BridgeState(b)' = "Registered")
                => pc[b] = "ctor_persona"
          /\ Destroyed(b) => BridgeState(b)' = "Unregistered"
          /\ DeliveryStep => EntriesOf(registry', b) = EntriesOf(registry, b)]_vars

C6_Witness ==
    \E b \in Bridges :
        /\ pc[b] = "released"
        /\ BridgeState(b) = "Unregistered"
        /\ Len(DeliveredTo(b)) >= 1
        /\ frame.pc = "ret"

\* the state of one registration member of a manager
HandleState(b, reg) ==
    LET es == { e \in registry : e.obj = b /\ e.reg = reg }
    IN  IF es = {} THEN "unregistered"
        ELSE IF /\ Cardinality(es) = 1
                /\ b \in alloc
                /\ \A e \in es :
                      /\ e.iCallback = CallbackType(reg)
                      /\ SlotOf(e.iCallback) = Invoke(e.func, callbacks[b], <<>>)[1].slot
             THEN "registered"
             ELSE "partial"

\* C7: every registration member of every manager is either registered (one
\* entry of the dispatch, tagged with its kind, bound to the handler of that
\* kind of an allocated manager) or unregistered (no entry); and when a
\* manager's destructor has finished, both of its members are unregistered.
C7_HandlesWholeAndGoneBeforeEnd ==
    \A b \in Bridges :
        /\ \A reg \in Registrations : HandleState(b, reg) \in {"registered", "unregistered"}
        /\ Destroyed(b) => \A reg \in Registrations : HandleState(b, reg) = "unregistered"

C7_Witness ==
    \E b, c \in Bridges :
        /\ pc[b] = "dtor_free"
        /\ pc[c] = "live"
        /\ \A reg \in Registrations : HandleState(c, reg) = "registered"

\* C8: the step that releases a manager's memory is taken only when none of
\* its handlers is registered, and no manager that was constructed and whose
\* memory is no longer allocated has a registered handler.
C8_UnregisterThenRelease ==
    [][\A b \in Bridges :
          /\ (b \in alloc /\ b \notin alloc') => EntriesOf(registry, b) = {}
          /\ b \notin alloc' => EntriesOf(registry', b) = {}]_vars

C8_Witness ==
    \E b \in Bridges :
        /\ pc[b] = "released"
        /\ b \notin alloc
        /\ \E c \in Bridges : c # b /\ pc[c] = "dtor_shutdown"

\* C9: the sequence of (manager, slot, payload) calls equals the sequence of
\* (manager, kind, payload) deliveries, in order and in length; only the
\* delivery whose handler has not yet reached its call is missing.
C9_ForwardedInOrder ==
    LET called == [i \in 1..Len(calls) |->
                      <<calls[i].via, calls[i].slot, calls[i].arg>>]
        sent   == [i \in 1..Len(delivered) |->
                      <<delivered[i].obj, SlotOf(delivered[i].kind), delivered[i].arg>>]
    IN  IF frame.pc = "call"
        THEN called = SubSeq(sent, 1, Len(sent) - 1)
        ELSE called = sent

C9_Witness ==
    /\ Len(calls) >= 3
    /\ calls[1].via # calls[2].via
    /\ calls[1].arg # calls[3].arg
    /\ frame = NoFrame

\* deliveries to manager b that have not been forwarded to a stub
Pending(b) == Len(DeliveredTo(b)) - Len(CallsVia(b))

\* C10: a manager has an unforwarded delivery only while its handler is
\* entered and has not yet made the call; whenever the handler has returned
\* to the dispatch nothing is pending.
C10_Synchronous ==
    \A b \in Bridges : Pending(b) = (IF Entering(b) THEN 1 ELSE 0)

C10_Witness ==
    \E b \in Bridges :
        /\ cur # NoEvent
        /\ frame = NoFrame
        /\ todo = {}
        /\ Len(DeliveredTo(b)) = 2
        /\ Pending(b) = 0


\* ----------------------------------------- failure of a native registration
\* the process has hit neither a fatal nor an undefined condition
Running == err = "none"

\* the native registration made at lib.cpp:11 or lib.cpp:12 fails, which is
\* fatal: the process aborts inside the constructor
NativeRegistrationFails(b) ==
    /\ pc[b] \in {"ctor_persona", "ctor_shutdown"}
    /\ err' = "abort"
    /\ UNCHANGED <<pc, alloc, callbacks, registry, taken, cur, todo, frame, delivered, calls>>
    /\ UNCHANGED <<callerTable, iface, version, rpc, ran>>

NextAbort ==
    /\ Running
    /\ \/ \E b \in Bridges, t \in Tables : RegisterCallbacksNew(b, t)
       \/ BridgeSteps
       \/ \E b \in Bridges : NativeRegistrationFails(b)

SpecAbort == Init /\ [][NextAbort]_vars

C13_OneInvocationNoOverlap ==
    \A b \in Bridges :
        frame.obj = b =>
            /\ pc[b] = "live"
            /\ b \in alloc
            /\ Len(delivered) >= 1
            /\ delivered[Len(delivered)] = [obj |-> b, kind |-> cur.kind, arg |-> frame.arg]
            /\ Len(calls) = Len(delivered) - (IF frame.pc = "call" THEN 1 ELSE 0)
            /\ \A e \in todo : e.obj # b

C13_Witness ==
    \E b, c \in Bridges :
        /\ b # c
        /\ frame.obj = b
        /\ frame.pc = "ret"
        /\ \E e \in todo : e.obj = c
        /\ pc[c] = "live"

\* ------------------------------------------------ a caller with null slots
NextNull ==
    /\ Running
    /\ \/ \E b \in Bridges, t \in NullableTables : RegisterCallbacksNew(b, t)
       \/ BridgeSteps

SpecNull == Init /\ [][NextNull]_vars

\* deliveries of kind k to manager b, and calls of b through the slot of k
DeliveredKind(b, k) == Len(SelectSeq(delivered, LAMBDA d : d.obj = b /\ d.kind = k))
CalledSlot(b, k) == Len(SelectSeq(calls, LAMBDA c : c.via = b /\ c.slot = SlotOf(k)))

\* C14: a table with a null slot is accepted like any other: the manager gets
\* its N registrations, events of a kind whose slot is not null are forwarded
\* once each, and the undefined state is reached exactly by a handler that
\* was delivered an event of the kind whose slot is null and calls through it.
C14_NullSlotUnguarded ==
    /\ err \in {"none", "null_call"}
    /\ \A i \in 1..Len(calls) : calls[i].fn # NullFn
    /\ err = "null_call" =>
          /\ frame.pc = "call"
          /\ callbacks[frame.obj][SlotOf(cur.kind)] = NullFn
    /\ \A b \in Bridges :
          /\ pc[b] = "live" =>
                { e.iCallback : e \in EntriesOf(registry, b) } = Kinds
          /\ b \in alloc => \A k \in Kinds :
                IF callbacks[b][SlotOf(k)] = NullFn
                THEN /\ CalledSlot(b, k) = 0
                     /\ DeliveredKind(b, k) <= 1
                     /\ DeliveredKind(b, k) = 1 => (Entering(b) /\ cur.kind = k)
                ELSE CalledSlot(b, k) =
                         DeliveredKind(b, k) - (IF Entering(b) /\ cur.kind = k THEN 1 ELSE 0)

C14_Witness ==
    /\ err = "null_call"
    /\ cur.kind = "SteamShutdown_t"
    /\ callbacks[frame.obj].onSteamShutdown = NullFn
    /\ callbacks[frame.obj].onPersonaStateChanged = "A"
    /\ CalledSlot(frame.obj, "PersonaStateChange_t") = 1

\* ------------------------------------------- a caller that misuses Destroy
\* lib.cpp:30-31 called again with a handle that was destroyed: the delete of
\* released memory is undefined, and nothing in the function detects it
UnregisterCallbacksAgain(b) ==
    /\ Idle
    /\ pc[b] = "released"
    /\ err' = "double_free"
    /\ UNCHANGED <<pc, alloc, callbacks, registry, taken, cur, todo, frame, delivered, calls>>
    /\ UNCHANGED <<callerTable, iface, version, rpc, ran>>

\* lib.cpp:30-31 called by the stub that the manager's own handler is
\* calling: the manager is torn down under the dispatch that is using it
UnregisterCallbacksInCallback(b) ==
    /\ frame.obj = b
    /\ frame.pc = "ret"
    /\ pc[b] = "live"
    /\ err' = "destroy_in_callback"
    /\ UNCHANGED <<pc, alloc, callbacks, registry, taken, cur, todo, frame, delivered, calls>>
    /\ UNCHANGED <<callerTable, iface, version, rpc, ran>>

NextMisuse ==
    /\ Running
    /\ \/ \E b \in Bridges, t \in Tables : RegisterCallbacksNew(b, t)
       \/ BridgeSteps
       \/ \E b \in Bridges : UnregisterCallbacksAgain(b)
       \/ \E b \in Bridges : UnregisterCallbacksInCallback(b)

SpecMisuse == Init /\ [][NextMisuse]_vars

\* C15: the first Destroy of a live manager is well defined and runs through
\* to the release; the undefined state is entered only by a second Destroy of
\* a released handle (double release) or by a Destroy from inside the
\* manager's own callback, so a caller that does neither never reaches it.
C15_DestroyOnceOnly ==
    [][/\ (err = "none" /\ err' # "none") =>
             \/ /\ err' = "double_free"
                /\ Idle
                /\ \E b \in Bridges : pc[b] = "released"
             \/ /\ err' = "destroy_in_callback"
                /\ frame.pc = "ret"
                /\ pc[frame.obj] = "live"
       /\ \A b \in Bridges :
             /\ (pc[b] = "live" /\ pc'[b] # "live") =>
                   (pc'[b] = "dtor_persona" /\ err' = "none")
             /\ (pc[b] # "released" /\ pc'[b] = "released") =>
                   (pc[b] = "dtor_free" /\ err' = "none" /\ EntriesOf(registry', b) = {})
             /\ pc[b] = "released" => (pc'[b] = "released" /\ b \notin alloc')]_vars

C15_Witness ==
    /\ err = "double_free"
    /\ \E b, c \in Bridges :
          /\ pc[b] = "released"
          /\ pc[c] = "live"
          /\ Len(CallsVia(b)) >= 1

\* ------------------------------------------------------ accessor functions
\* lib.cpp:3-8: one of the accessors is called, in whatever state the
\* managers are
GetInterface(f) ==
    /\ iface' = [fn |-> f, ptr |-> AccessorResult(f)]
    /\ UNCHANGED <<pc, alloc, callbacks, registry, taken, cur, todo, frame, delivered, calls>>
    /\ UNCHANGED <<err, callerTable, version, rpc, ran>>

NextAccessors ==
    \/ \E f \in Accessors : GetInterface(f)
    \/ \E b \in Bridges : RegisterCallbacksByValue(b)
    \/ BridgeSteps

SpecAccessors == Init /\ [][NextAccessors]_vars

\* the interface type an accessor is declared to return (lib.cpp:3-8)
ReturnType(f) ==
    CASE f = "steam_rust_get_friends"        -> "ISteamFriends"
      [] f = "steam_rust_get_remote_storage" -> "ISteamRemoteStorage"
      [] f = "steam_rust_get_ugc"            -> "ISteamUGC"
      [] f = "steam_rust_get_user"           -> "ISteamUser"
      [] f = "steam_rust_get_user_stats"     -> "ISteamUserStats"
      [] f = "steam_rust_get_utils"          -> "ISteamUtils"

\* the interface type an SDK accessor returns
InterfaceOf(ptr) ==
    CASE ptr = "SteamFriends()"       -> "ISteamFriends"
      [] ptr = "SteamRemoteStorage()" -> "ISteamRemoteStorage"
      [] ptr = "SteamUGC()"           -> "ISteamUGC"
      [] ptr = "SteamUser()"          -> "ISteamUser"
      [] ptr = "SteamUserStats()"     -> "ISteamUserStats"
      [] ptr = "SteamUtils()"         -> "ISteamUtils"

\* C16: a call of any of the six accessors, in any state of the managers,
\* returns the SDK interface of its own subsystem and changes no manager's
\* registrations or stored table and makes no stub call.
C16_AccessorsPassThrough ==
    [][iface' # iface =>
          /\ iface'.fn \in Accessors
          /\ InterfaceOf(iface'.ptr) = ReturnType(iface'.fn)
          /\ registry' = registry
          /\ callbacks' = callbacks
          /\ pc' = pc /\ alloc' = alloc
          /\ calls' = calls /\ delivered' = delivered
          /\ frame' = frame /\ cur' = cur /\ todo' = todo]_vars

C16_Witness ==
    /\ iface.fn = "steam_rust_get_user_stats"
    /\ iface.ptr = "SteamUserStats()"
    /\ frame.pc = "ret"
    /\ \E b \in Bridges : pc[b] = "released"

\* C17: when the dispatch of an event ends, each live manager has been called
\* exactly once for it, through the function its own stored table holds in
\* the slot of the event's kind and with the event's payload; and a
\* manager's registrations change only inside its own constructor or
\* destructor, so destroying one manager leaves the others registered.
C17_BridgesIndependent ==
    [][/\ (cur # NoEvent /\ cur' = NoEvent) =>
             LET live == { b \in Bridges : pc[b] = "live" }
                 n    == Cardinality(live)
                 last == (Len(calls) - n + 1)..Len(calls)
             IN  /\ Len(calls) >= n
                 /\ \A b \in live :
                       Cardinality({ i \in last :
                           /\ calls[i].via = b
                           /\ calls[i].fn = callbacks[b][SlotOf(cur.kind)]
                           /\ calls[i].arg = cur.arg }) = 1
       /\ \A c \in Bridges :
             EntriesOf(registry', c) # EntriesOf(registry, c) =>
                 pc[c] \in {"ctor_persona", "ctor_shutdown", "dtor_persona", "dtor_shutdown"}]_vars

C17_Witness ==
    \E b, c \in Bridges :
        /\ pc[b] = "released"
        /\ pc[c] = "live"
        /\ Len(CallsVia(b)) = 1
        /\ Len(CallsVia(c)) = 2
        /\ CallsVia(b)[1].fn # CallsVia(c)[1].fn
        /\ CallsVia(b)[1].arg = CallsVia(c)[1].arg
        /\ cur # NoEvent /\ todo = {} /\ frame = NoFrame

\* ------------------------------- the dispatch pumped between the statements
\* the dispatch takes up an event while a constructor or destructor may be
\* between two of its statements (the pump is not the constructing thread)
RunCallbacksAnytime(k, p) ==
    /\ cur = NoEvent
    /\ frame = NoFrame
    /\ taken < MaxEvents
    /\ taken' = taken + 1
    /\ cur' = [kind |-> k, arg |-> p]
    /\ todo' = { e \in registry : e.iCallback = k }
    /\ UNCHANGED <<pc, alloc, callbacks, registry, frame, delivered, calls>>
    /\ UNCHANGED aux

\* one statement of a constructor or destructor; the dispatch mechanism
\* serialises a registration call with the dispatch of an event
StatementBetweenEvents(b) ==
    /\ cur = NoEvent
    /\ \/ CtorPersona(b)
       \/ CtorShutdown(b)
       \/ DtorPersona(b)
       \/ DtorShutdown(b)
       \/ Release(b)

NextConc ==
    \/ \E b \in Bridges : RegisterCallbacksByValue(b)
    \/ \E b \in Bridges : UnregisterCallbacksDelete(b)
    \/ \E b \in Bridges : StatementBetweenEvents(b)
    \/ \E k \in Kinds : \E p \in Payloads(k) : RunCallbacksAnytime(k, p)
    \/ \E e \in todo : Deliver(e)
    \/ HandlerCall
    \/ HandlerReturn
    \/ RunCallbacksReturn

SpecConc == Init /\ [][NextConc]_vars

RegisteredKinds(b) == { e.iCallback : e \in EntriesOf(registry, b) }

\* C18: inside the constructor there is a state with only the
\* presence-change handler registered and inside the destructor one with only
\* the shutdown handler registered (presence-change is handled first in
\* both); a handler is called for an event only while the entry of its own
\* kind is registered, and every manager with such an entry is called.
C18_NotAtomicAcrossKinds ==
    [][/\ \A b \in Bridges :
             /\ pc[b] = "ctor_persona" => RegisteredKinds(b) = {}
             /\ pc[b] = "ctor_shutdown" => RegisteredKinds(b) = {"PersonaStateChange_t"}
             /\ pc[b] = "dtor_persona" => RegisteredKinds(b) = Kinds
             /\ pc[b] = "dtor_shutdown" => RegisteredKinds(b) = {"SteamShutdown_t"}
       /\ Len(delivered') > Len(delivered) =>
             delivered'[Len(delivered')].kind \in RegisteredKinds(delivered'[Len(delivered')].obj)
       /\ (cur # NoEvent /\ cur' = NoEvent) =>
             LET with == { b \in Bridges : cur.kind \in RegisteredKinds(b) }
                 n    == Cardinality(with)
             IN  /\ Len(calls) >= n
                 /\ { calls[i].via : i \in (Len(calls) - n + 1)..Len(calls) } = with
                 /\ \A i \in (Len(calls) - n + 1)..Len(calls) :
                       calls[i].slot = SlotOf(cur.kind) /\ calls[i].arg = cur.arg]_vars

C18_Witness ==
    \E b \in Bridges :
        /\ pc[b] = "dtor_shutdown"
        /\ RegisteredKinds(b) = {"SteamShutdown_t"}
        /\ cur.kind = "PersonaStateChange_t"
        /\ todo = {} /\ frame = NoFrame
        /\ taken = 2
        /\ Len(DeliveredTo(b)) = 1
        /\ DeliveredTo(b)[1].kind = "PersonaStateChange_t"
        /\ Len(calls) = 1

\* ------------------------------------------------- Destroy runs to its end
NextOneTable ==
    \/ \E b \in Bridges : RegisterCallbacksByValue(b)
    \/ BridgeSteps

\* the two Unregister calls and the release are bounded synchronous calls:
\* once the destructor is entered each of them is eventually made
DestroyFairness ==
    \A b \in Bridges :
        /\ WF_vars(DtorPersona(b))
        /\ WF_vars(DtorShutdown(b))
        /\ WF_vars(Release(b))

SpecFair == Init /\ [][NextOneTable]_vars /\ DestroyFairness

\* C19: a Destroy that has entered the destructor of a manager always leads
\* to the manager being released with none of its handlers registered.
C19_DestroyTerminates ==
    \A b \in Bridges :
        (pc[b] = "dtor_persona") ~>
            (pc[b] = "released" /\ b \notin alloc /\ EntriesOf(registry, b) = {})

C19_Witness ==
    \E b, c \in Bridges :
        /\ pc[b] = "released"
        /\ b \notin alloc
        /\ EntriesOf(registry, b) = {}
        /\ pc[c] = "live"
        /\ taken = 0

\* C11: while a manager's memory is allocated no step changes its stored
\* table, and every call a handler makes goes to the function that the stored
\* table holds in the slot used, whatever the caller's own table variable
\* holds by then.
C11_TableCopiedNeverMutated ==
    [][/\ \A b \in Bridges :
             (b \in alloc /\ b \in alloc') => callbacks'[b] = callbacks[b]
       /\ \A i \in (Len(calls) + 1)..Len(calls') :
             calls'[i].fn = callbacks[calls'[i].via][calls'[i].slot]]_vars

C11_Witness ==
    \E b \in Bridges :
        /\ pc[b] = "live"
        /\ frame.obj = b
        /\ frame.pc = "ret"
        /\ cur.kind = "PersonaStateChange_t"
        /\ callbacks[b].onPersonaStateChanged # callerTable.onPersonaStateChanged
        /\ calls[Len(calls)].fn = callbacks[b].onPersonaStateChanged

\* ------------------------------------------------------------------
\* Semantic Versioning 2.0.0, by its grammar: core, then an optional
\* pre-release after the first "-", then optional build metadata after the
\* first "+"; each a list of "."-separated identifiers.
FirstIndex(s, ch) ==
    IF \E i \in 1..Len(s) : s[i] = ch
    THEN CHOOSE i \in 1..Len(s) : s[i] = ch /\ \A j \in 1..(i - 1) : s[j] # ch
    ELSE 0

RECURSIVE Fields(_)
Fields(s) ==
    LET dot == FirstIndex(s, ".")
    IN  IF dot = 0 THEN << s >>
        ELSE << SubSeq(s, 1, dot - 1) >> \o Fields(SubSeq(s, dot + 1, Len(s)))

NoLeadingZero(id) == Len(id) = 1 \/ id[1] # "0"

SemVer(s) ==
    LET plus  == FirstIndex(s, "+")
        main  == IF plus = 0 THEN s ELSE SubSeq(s, 1, plus - 1)
        build == Fields(SubSeq(s, plus + 1, Len(s)))
        hyph  == FirstIndex(main, "-")
        core  == Fields(IF hyph = 0 THEN main ELSE SubSeq(main, 1, hyph - 1))
        pre   == Fields(SubSeq(main, hyph + 1, Len(main)))
    IN  /\ Len(core) = 3
        /\ \A i \in 1..3 :
              core[i] # << >> /\ AllIn(core[i], Digit) /\ NoLeadingZero(core[i])
        /\ hyph # 0 =>
              \A i \in 1..Len(pre) :
                  /\ pre[i] # << >>
                  /\ AllIn(pre[i], AlnumOrHyphen)
                  /\ AllIn(pre[i], Digit) => NoLeadingZero(pre[i])
        /\ plus # 0 =>
              \A i \in 1..Len(build) :
                  build[i] # << >> /\ AllIn(build[i], AlnumOrHyphen)

RanOkBefore(c, i) == \E j \in 1..(i - 1) : ran[j].cmd = c /\ ran[j].ok

\* C20: the release task runs no command at all when the version is missing
\* or is not a valid SemVer string; the git tag and the two pushes run only
\* after cargo test, the rustfmt check and the clean-tree check have all
\* succeeded; the docs upload runs only after the tag and the pushes have
\* succeeded; and no cargo publish, dry-run or real, ever runs.
C20_ReleaseGatedInOrder ==
    /\ (version = NoVersion \/ ~SemVer(version)) =>
          (ran = << >> /\ rpc \in {"idle", "aborted"})
    /\ \A i \in 1..Len(ran) :
          /\ ran[i].cmd \in {"git tag", "git push origin master", "git push origin tag"} =>
                /\ RanOkBefore("cargo test --all-features", i)
                /\ RanOkBefore("cargo fmt -- --check", i)
                /\ RanOkBefore("git diff HEAD --exit-code --name-only", i)
          /\ ran[i].cmd \in {"git remote get-url origin", "git init", "git add .",
                             "git commit", "git push -f gh-pages"} =>
                /\ RanOkBefore("git tag", i)
                /\ RanOkBefore("git push origin master", i)
                /\ RanOkBefore("git push origin tag", i)
          /\ ran[i].cmd \notin {"cargo publish --dry-run", "cargo publish"}

C20_Witness ==
    /\ rpc = "done"
    /\ FirstIndex(version, "-") # 0
    /\ Len(ran) = 11
    /\ ran[Len(ran)].cmd = "git push -f gh-pages"
    /\ ran[1].cmd = "git diff HEAD --exit-code --name-only"

====
